---- MODULE Spec2Model ----
(***************************************************************************)
(* Model of scripts/count_documents.py (the document/page census over a    *)
(* client-folder hierarchy) and of scripts/restructure_cfr.py (the schema  *)
(* restructuring transform).                                               *)
(*                                                                         *)
(* Strings whose characters the code inspects (file names, client names,   *)
(* CSV lines) are sequences of one-character strings.                      *)
(***************************************************************************)
EXTENDS Integers, Sequences, FiniteSets, TLC

VARIABLES
    root_kind,      \* what TARGET_PATH is on disk: "missing", "file" or "dir"
    fs,             \* the directory tree below the root: node -> entry
    PDF_SUPPORT,    \* module flag set by the pypdf / PyPDF2 import
    DOCX_SUPPORT,   \* module flag set by the python-docx import
    pc,             \* position of the script
    run,            \* number of the current run of the script
    client_folders, \* sorted client folders still to process
    client_folder,  \* the client folder being walked
    client_stats,   \* its statistics so far
    results,        \* client name -> client_stats
    total_stats,    \* the global totals
    stack,          \* os.walk: directories still to list
    cur,            \* os.walk: the directory last yielded
    files,          \* os.walk: files of that directory not yet processed
    walked,         \* history: real directories listed for the current client
    report,         \* <<>> or <<the dictionary analyze_folder returned>>
    exception,      \* the exception that ended the run, or "none"
    printed,        \* print_summary has written the console summary
    json_file,      \* <<>> or <<content of document_count_report.json>>
    csv_file,       \* <<>> or <<lines of document_count_report.csv>>
    first_clients,  \* history: <<clients of the first completed run>>
    total_chars,    \* count_docx_pages alone: characters in the paragraphs
    docx_opens,     \* count_docx_pages alone: Document(file_path) succeeds
    estimated_pages,\* count_docx_pages alone: <<>> or <<value returned>>
    schema,         \* restructure_cfr: content of cfr.json
    schema_in,      \* history: <<cfr.json as the last restructuring read it>>
    restructures    \* number of restructurings done

vars == <<root_kind, fs, PDF_SUPPORT, DOCX_SUPPORT, pc, run, client_folders,
          client_folder, client_stats, results, total_stats, stack, cur, files,
          walked, report, exception, printed, json_file, csv_file,
          first_clients, total_chars, docx_opens, estimated_pages, schema,
          schema_in, restructures>>

censusVars == <<root_kind, fs, PDF_SUPPORT, DOCX_SUPPORT, pc, run,
                client_folders, client_folder, client_stats, results,
                total_stats, stack, cur, files, walked, report, exception,
                printed, json_file, csv_file, first_clients>>
docxVars == <<total_chars, docx_opens, estimated_pages>>
schemaVars == <<schema, schema_in, restructures>>

-----------------------------------------------------------------------------
(* Bounds of the model *)

MaxRuns == 2
MaxChars == 6001
MaxNameLen == 3
MaxRestructures == 2

-----------------------------------------------------------------------------
(* Characters and strings *)

Ascii == <<" ", "\"", "(", ")", ",", ".", "0", "1", "2", "3", "4", "5", "6",
           "7", "8", "9", "A", "B", "C", "D", "E", "F", "G", "H", "I", "J",
           "K", "L", "M", "N", "O", "P", "Q", "R", "S", "T", "U", "V", "W",
           "X", "Y", "Z", "_", "a", "b", "c", "d", "e", "f", "g", "h", "i",
           "j", "k", "l", "m", "n", "o", "p", "q", "r", "s", "t", "u", "v",
           "w", "x", "y", "z">>
UpperCase == <<"A", "B", "C", "D", "E", "F", "G", "H", "I", "J", "K", "L", "M",
               "N", "O", "P", "Q", "R", "S", "T", "U", "V", "W", "X", "Y", "Z">>
LowerCase == <<"a", "b", "c", "d", "e", "f", "g", "h", "i", "j", "k", "l", "m",
               "n", "o", "p", "q", "r", "s", "t", "u", "v", "w", "x", "y", "z">>

\* code point order of the characters the model uses
Ord(c) == CHOOSE i \in 1..Len(Ascii) : Ascii[i] = c

\* str.lower()
LowerChar(c) ==
    IF \E i \in 1..Len(UpperCase) : UpperCase[i] = c
    THEN LowerCase[CHOOSE i \in 1..Len(UpperCase) : UpperCase[i] = c]
    ELSE c
Lower(s) == [i \in 1..Len(s) |-> LowerChar(s[i])]

\* str.endswith(suffix)
EndsWith(s, suffix) ==
    /\ Len(s) >= Len(suffix)
    /\ SubSeq(s, Len(s) - Len(suffix) + 1, Len(s)) = suffix

\* s < t for str (and for sibling Path objects, which differ in the name)
RECURSIVE StrLess(_, _)
StrLess(s, t) ==
    IF t = <<>> THEN FALSE
    ELSE IF s = <<>> THEN TRUE
    ELSE IF Ord(Head(s)) # Ord(Head(t)) THEN Ord(Head(s)) < Ord(Head(t))
    ELSE StrLess(Tail(s), Tail(t))

\* str(n) for an int n >= 0
Digits == <<"0", "1", "2", "3", "4", "5", "6", "7", "8", "9">>
RECURSIVE IntToStr(_)
IntToStr(n) ==
    IF n < 10 THEN <<Digits[n + 1]>>
    ELSE Append(IntToStr(n \div 10), Digits[(n % 10) + 1])

Max(a, b) == IF a >= b THEN a ELSE b

Reverse(s) == [i \in 1..Len(s) |-> s[Len(s) + 1 - i]]

RECURSIVE SumSeq(_)
SumSeq(s) == IF s = <<>> THEN 0 ELSE Head(s) + SumSeq(Tail(s))

\* every order in which the elements of S can be listed
Orders(S) ==
    {s \in [1..Cardinality(S) -> S] :
        \A i, j \in 1..Cardinality(S) : i # j => s[i] # s[j]}

-----------------------------------------------------------------------------
(* The directory tree *)

Acme == <<"A", "c", "m", "e">>
Beta == <<"B", "e", "t", "a">>
SmithJohn == <<"S", "m", "i", "t", "h", ",", " ", "J", "o", "h", "n">>
ReportPdf == <<"r", "e", "p", "o", "r", "t", ".", "p", "d", "f">>
NotesDocx == <<"n", "o", "t", "e", "s", ".", "d", "o", "c", "x">>
APdfUpper == <<"a", ".", "P", "D", "F">>
Sub == <<"s", "u", "b">>
OldDoc == <<"o", "l", "d", ".", "D", "O", "C">>
DataTxt == <<"d", "a", "t", "a", ".", "t", "x", "t">>
ScanPdf == <<"s", "c", "a", "n", ".", "p", "d", "f">>
ReadmePdf == <<"r", "e", "a", "d", "m", "e", ".", "p", "d", "f">>

Root == 0
Nodes == 1..11

\* An entry: its directory (parent), its name, what it is, where it points
\* when it is a symbolic link, and what a reader finds in it when it is a
\* file: the page count of a PDF, the paragraph characters of a .docx, or
\* -1 when the backend cannot open it.
Entry(parent, name, kind, target, size) ==
    [parent |-> parent, name |-> name, kind |-> kind, target |-> target,
     size |-> size]
Absent(parent, name) == Entry(parent, name, "absent", Root, 0)

\* The trees the model scans.  Acme holds report.pdf, notes.docx, possibly
\* a.PDF, and sub, which is a directory (old.DOC, data.txt) or a link to
\* Acme or to the root; Beta holds an unreadable scan.pdf; readme.pdf lies
\* in the root; "Smith, John" is absent, an empty directory, or a link to
\* the root or to Acme.
VariedTrees ==
    {[n \in Nodes |->
        CASE n = 1 -> Entry(Root, Acme, "dir", Root, 0)
          [] n = 2 -> Entry(1, ReportPdf, "file", Root, reportSize)
          [] n = 3 -> Entry(1, NotesDocx, "file", Root, notesSize)
          [] n = 4 -> IF hasA THEN Entry(1, APdfUpper, "file", Root, 1)
                      ELSE Absent(1, APdfUpper)
          [] n = 5 -> Entry(1, Sub, subKind[1], subKind[2], 0)
          [] n = 6 -> IF subKind[1] = "dir" THEN Entry(5, OldDoc, "file", Root, 0)
                      ELSE Absent(5, OldDoc)
          [] n = 7 -> IF subKind[1] = "dir" THEN Entry(5, DataTxt, "file", Root, 0)
                      ELSE Absent(5, DataTxt)
          [] n = 8 -> Entry(Root, Beta, "dir", Root, 0)
          [] n = 9 -> Entry(8, ScanPdf, "file", Root, -1)
          [] n = 10 -> Entry(Root, ReadmePdf, "file", Root, 2)
          [] n = 11 -> Entry(Root, SmithJohn, smithKind[1], smithKind[2], 0)] :
        reportSize \in {-1, 3},
        notesSize \in {0, 6000},
        hasA \in BOOLEAN,
        subKind \in {<<"dir", Root>>, <<"link", Root>>, <<"link", 1>>},
        smithKind \in {<<"absent", Root>>, <<"dir", Root>>, <<"link", Root>>,
                       <<"link", 1>>}}

NoTree == [n \in Nodes |-> Absent(Root, <<>>)]

\* a root without subdirectories: readme.pdf alone
BareTree ==
    [n \in Nodes |->
        IF n = 10 THEN Entry(Root, ReadmePdf, "file", Root, 2)
        ELSE Absent(Root, <<>>)]

\* Acme with one 3-page PDF and one .docx without characters, Beta with
\* one unreadable PDF
ScenarioTree ==
    [n \in Nodes |->
        CASE n = 1 -> Entry(Root, Acme, "dir", Root, 0)
          [] n = 2 -> Entry(1, ReportPdf, "file", Root, 3)
          [] n = 3 -> Entry(1, NotesDocx, "file", Root, 0)
          [] n = 8 -> Entry(Root, Beta, "dir", Root, 0)
          [] n = 9 -> Entry(8, ScanPdf, "file", Root, -1)
          [] OTHER -> Absent(Root, <<>>)]

Trees == VariedTrees \cup {BareTree, ScenarioTree}

\* os.scandir(d): the entries of directory d (in no particular order)
Entries(d) == {n \in Nodes : fs[n].kind # "absent" /\ fs[n].parent = d}

\* os.path.islink
IsLink(n) == fs[n].kind = "link"

\* the node a path names once a final symbolic link is followed
Resolve(n) == IF IsLink(n) THEN fs[n].target ELSE n

\* Path.is_dir() and DirEntry.is_dir(): both follow symbolic links
IsDir(n) ==
    \/ fs[n].kind = "dir"
    \/ IsLink(n) /\ (fs[n].target = Root \/ fs[fs[n].target].kind = "dir")

\* sorted(client_folders): siblings, ordered by their names
SortedFolders(S) ==
    CHOOSE s \in Orders(S) :
        \A i \in 1..(Len(s) - 1) : StrLess(fs[s[i]].name, fs[s[i + 1]].name)

-----------------------------------------------------------------------------
(* Page estimation *)

CharsPerPage == 3000

\* count_pdf_pages without its except clause: a failure reaches the caller
\* as the reader's failure value
count_pdf_pages_unguarded(file) ==
    IF ~PDF_SUPPORT THEN 0 ELSE fs[file].size

\* count_pdf_pages: len(reader.pages), or 0 without a backend or when
\* PdfReader raises
count_pdf_pages(file) ==
    IF ~PDF_SUPPORT THEN 0
    ELSE IF fs[file].size < 0 THEN 0
    ELSE fs[file].size

\* an estimate without the floor of one page
EstimatePagesUnfloored(chars) == chars \div CharsPerPage

\* the estimate count_docx_pages makes from the paragraphs' characters
EstimatePages(chars) ==
    IF chars > 0 THEN Max(1, chars \div CharsPerPage) ELSE 1

\* count_docx_pages: opens tells whether Document(file_path) succeeds
DocxPages(support, opens, chars) ==
    IF ~support THEN 0
    ELSE IF ~opens THEN 0
    ELSE EstimatePages(chars)

count_docx_pages(file) ==
    DocxPages(DOCX_SUPPORT, fs[file].size >= 0, fs[file].size)

-----------------------------------------------------------------------------
(* analyze_folder *)

EmptyStats ==
    [pdf_files |-> <<>>, docx_files |-> <<>>, pdf_count |-> 0,
     docx_count |-> 0, pdf_pages |-> 0, docx_pages |-> 0,
     total_documents |-> 0, total_pages |-> 0]

ZeroTotals ==
    [total_pdf_files |-> 0, total_docx_files |-> 0, total_pdf_pages |-> 0,
     total_docx_pages |-> 0, total_documents |-> 0, total_pages |-> 0]

NoDir == [node |-> Root, rel |-> <<>>]

\* the script starts: nothing analysed, nothing emitted in this run
Fresh ==
    /\ pc = "start"
    /\ client_folders = <<>>
    /\ client_folder = Root
    /\ client_stats = EmptyStats
    /\ results = <<>>
    /\ total_stats = ZeroTotals
    /\ stack = <<>>
    /\ cur = NoDir
    /\ files = <<>>
    /\ walked = <<>>
    /\ report = <<>>
    /\ exception = "none"
    /\ printed = FALSE

walkVars == <<stack, cur, files, walked>>
outVars == <<report, exception, printed, json_file, csv_file, first_clients>>
idleVars == <<docxVars, schemaVars>>
envVars == <<root_kind, fs, PDF_SUPPORT, DOCX_SUPPORT, run, idleVars>>

\* root_path.exists() is false: FileNotFoundError, which __main__ catches
\* and reports
RootMissing ==
    /\ pc = "start"
    /\ root_kind = "missing"
    /\ exception' = "FileNotFoundError"
    /\ pc' = "error"
    /\ UNCHANGED <<envVars, client_folders, client_folder, client_stats,
                   results, total_stats, walkVars, report, printed, json_file,
                   csv_file, first_clients>>

\* the root exists and is no directory: root_path.iterdir() raises
\* NotADirectoryError, which __main__ reports and raises again
RootNotDirectory ==
    /\ pc = "start"
    /\ root_kind = "file"
    /\ exception' = "NotADirectoryError"
    /\ pc' = "crashed"
    /\ UNCHANGED <<envVars, client_folders, client_folder, client_stats,
                   results, total_stats, walkVars, report, printed, json_file,
                   csv_file, first_clients>>

\* the client folders: the immediate entries of the root that are
\* directories, sorted
ListClients ==
    /\ pc = "start"
    /\ root_kind = "dir"
    /\ results' = <<>>
    /\ total_stats' = ZeroTotals
    /\ client_folders' = SortedFolders({f \in Entries(Root) : IsDir(f)})
    /\ pc' = "clients"
    /\ UNCHANGED <<envVars, client_folder, client_stats, walkVars, outVars>>

\* the head of the loop over the client folders, and the call of os.walk
BeginClient ==
    /\ pc = "clients"
    /\ client_folders # <<>>
    /\ client_folder' = Head(client_folders)
    /\ client_folders' = Tail(client_folders)
    /\ client_stats' = EmptyStats
    /\ stack' = <<[node |-> Resolve(Head(client_folders)), rel |-> <<>>]>>
    /\ cur' = NoDir
    /\ files' = <<>>
    /\ walked' = <<>>
    /\ pc' = "walk"
    /\ UNCHANGED <<envVars, results, total_stats, outVars>>

\* a walk that enters symbolic links to directories (followlinks=True)
WalkIntoLinks(dirs) == dirs

\* os.walk: the subdirectories of a listed directory that it goes on to
\* list (followlinks is False: symbolic links are yielded, never entered)
WalkInto(dirs) == SelectSeq(dirs, LAMBDA d : ~IsLink(d))

\* os.walk: one directory is taken from the stack and listed, in the order
\* the file system gives its entries; its files are yielded and its
\* subdirectories stacked
WalkDir ==
    /\ pc = "walk"
    /\ files = <<>>
    /\ stack # <<>>
    /\ LET top == stack[Len(stack)]
       IN \E listing \in Orders(Entries(top.node)) :
            LET dirs == SelectSeq(listing, IsDir)
                nondirs == SelectSeq(listing, LAMBDA n : ~IsDir(n))
                into == [i \in 1..Len(WalkInto(dirs)) |->
                           [node |-> Resolve(WalkInto(dirs)[i]),
                            rel |-> Append(top.rel, fs[WalkInto(dirs)[i]].name)]]
            IN /\ cur' = top
               /\ files' = nondirs
               /\ stack' = SubSeq(stack, 1, Len(stack) - 1) \o Reverse(into)
               /\ walked' = Append(walked, top.node)
    /\ UNCHANGED <<envVars, pc, client_folders, client_folder, client_stats,
                   results, total_stats, outVars>>

\* the test for .pdf without lower()
IsPdfNameCaseSensitive(name) == EndsWith(name, <<".", "p", "d", "f">>)

IsPdfName(name) == EndsWith(Lower(name), <<".", "p", "d", "f">>)
IsDocxName(name) == EndsWith(Lower(name), <<".", "d", "o", "c", "x">>)
IsDocName(name) == EndsWith(Lower(name), <<".", "d", "o", "c">>)
IsWordName(name) == IsDocxName(name) \/ IsDocName(name)

\* file_path.relative_to(client_folder), as its components
RelativePath(file) == Append(cur.rel, fs[file].name)

\* a .pdf file is counted
ProcessPdf ==
    /\ pc = "walk"
    /\ files # <<>>
    /\ IsPdfName(fs[Head(files)].name)
    /\ LET pages == count_pdf_pages(Head(files))
       IN client_stats' =
            [client_stats EXCEPT
               !.pdf_files = Append(@, [file |-> RelativePath(Head(files)),
                                        pages |-> pages]),
               !.pdf_count = @ + 1,
               !.pdf_pages = @ + pages]
    /\ files' = Tail(files)
    /\ UNCHANGED <<envVars, pc, client_folders, client_folder, results,
                   total_stats, stack, cur, walked, outVars>>

\* a .docx or .doc file is counted
ProcessWord ==
    /\ pc = "walk"
    /\ files # <<>>
    /\ ~IsPdfName(fs[Head(files)].name)
    /\ IsWordName(fs[Head(files)].name)
    /\ LET pages == IF IsDocxName(fs[Head(files)].name)
                    THEN count_docx_pages(Head(files))
                    ELSE 0
       IN client_stats' =
            [client_stats EXCEPT
               !.docx_files = Append(@, [file |-> RelativePath(Head(files)),
                                         pages |-> pages]),
               !.docx_count = @ + 1,
               !.docx_pages = @ + pages]
    /\ files' = Tail(files)
    /\ UNCHANGED <<envVars, pc, client_folders, client_folder, results,
                   total_stats, stack, cur, walked, outVars>>

\* any other file is passed over
SkipFile ==
    /\ pc = "walk"
    /\ files # <<>>
    /\ ~IsPdfName(fs[Head(files)].name)
    /\ ~IsWordName(fs[Head(files)].name)
    /\ files' = Tail(files)
    /\ UNCHANGED <<envVars, pc, client_folders, client_folder, client_stats,
                   results, total_stats, stack, cur, walked, outVars>>

\* totals that leave the Word pages out
ClientTotalsPdfPagesOnly(stats) ==
    [stats EXCEPT
       !.total_documents = stats.pdf_count + stats.docx_count,
       !.total_pages = stats.pdf_pages]

\* the totals of the client whose walk has ended
ClientTotals(stats) ==
    [stats EXCEPT
       !.total_documents = stats.pdf_count + stats.docx_count,
       !.total_pages = stats.pdf_pages + stats.docx_pages]

\* the global totals once a client's statistics are added
AddToTotals(totals, stats) ==
    [total_pdf_files |-> totals.total_pdf_files + stats.pdf_count,
     total_docx_files |-> totals.total_docx_files + stats.docx_count,
     total_pdf_pages |-> totals.total_pdf_pages + stats.pdf_pages,
     total_docx_pages |-> totals.total_docx_pages + stats.docx_pages,
     total_documents |-> totals.total_documents + stats.total_documents,
     total_pages |-> totals.total_pages + stats.total_pages]

\* results rebound to a dictionary of the one client
StoreAlone(dict, key, value) == [k \in {key} |-> value]

\* results[client_name] = client_stats
Store(dict, key, value) ==
    [k \in DOMAIN dict \cup {key} |-> IF k = key THEN value ELSE dict[k]]

\* os.walk is exhausted: the client's totals, its entry in results, and
\* the global totals
FinishClient ==
    /\ pc = "walk"
    /\ files = <<>>
    /\ stack = <<>>
    /\ LET stats == ClientTotals(client_stats)
       IN /\ client_stats' = stats
          /\ results' = Store(results, fs[client_folder].name, stats)
          /\ total_stats' = AddToTotals(total_stats, stats)
    /\ pc' = "clients"
    /\ UNCHANGED <<envVars, client_folders, client_folder, walkVars, outVars>>

\* the dictionary analyze_folder returns; analyzed_at is the time of the
\* run, which differs from run to run
ReturnReport ==
    /\ pc = "clients"
    /\ client_folders = <<>>
    /\ report' = <<[clients |-> results, summary |-> total_stats,
                    analyzed_path |-> "root", analyzed_at |-> run]>>
    /\ first_clients' = IF first_clients = <<>> THEN <<results>>
                        ELSE first_clients
    /\ pc' = "print"
    /\ UNCHANGED <<envVars, client_folders, client_folder, client_stats,
                   results, total_stats, walkVars, exception, printed,
                   json_file, csv_file>>

-----------------------------------------------------------------------------
(* The renderers and the script *)

CsvHeader ==
    <<"C", "l", "i", "e", "n", "t", " ", "F", "o", "l", "d", "e", "r", ",",
      "P", "D", "F", " ", "C", "o", "u", "n", "t", ",", "D", "O", "C", "X",
      " ", "C", "o", "u", "n", "t", ",", "T", "o", "t", "a", "l", " ", "D",
      "o", "c", "u", "m", "e", "n", "t", "s", ",", "P", "D", "F", " ", "P",
      "a", "g", "e", "s", ",", "D", "O", "C", "X", " ", "P", "a", "g", "e",
      "s", " ", "(", "e", "s", "t", ")", ",", "T", "o", "t", "a", "l", " ",
      "P", "a", "g", "e", "s">>
Total == <<"T", "O", "T", "A", "L">>

\* "Escape commas in client names"
SafeName(client_name) ==
    IF \E i \in 1..Len(client_name) : client_name[i] = ","
    THEN <<"\"">> \o client_name \o <<"\"">>
    ELSE client_name

\* one line of the CSV report, without its newline
CsvLine(first, numbers) ==
    first \o <<",">> \o IntToStr(numbers[1]) \o <<",">> \o IntToStr(numbers[2])
          \o <<",">> \o IntToStr(numbers[3]) \o <<",">> \o IntToStr(numbers[4])
          \o <<",">> \o IntToStr(numbers[5]) \o <<",">> \o IntToStr(numbers[6])

ClientRow(client_name, stats) ==
    CsvLine(SafeName(client_name),
            <<stats.pdf_count, stats.docx_count, stats.total_documents,
              stats.pdf_pages, stats.docx_pages, stats.total_pages>>)

TotalRow(summary) ==
    CsvLine(Total,
            <<summary.total_pdf_files, summary.total_docx_files,
              summary.total_documents, summary.total_pdf_pages,
              summary.total_docx_pages, summary.total_pages>>)

\* the keys of sorted(results["clients"].items())
SortedNames(S) ==
    CHOOSE s \in Orders(S) : \A i \in 1..(Len(s) - 1) : StrLess(s[i], s[i + 1])

\* the lines save_csv_report writes
CsvLines(rep) ==
    LET names == SortedNames(DOMAIN rep.clients)
    IN <<CsvHeader>>
       \o [i \in 1..Len(names) |-> ClientRow(names[i], rep.clients[names[i]])]
       \o <<TotalRow(rep.summary)>>

PrintSummary ==
    /\ pc = "print"
    /\ printed' = TRUE
    /\ pc' = "json"
    /\ UNCHANGED <<envVars, client_folders, client_folder, client_stats,
                   results, total_stats, walkVars, report, exception,
                   json_file, csv_file, first_clients>>

SaveDetailedReport ==
    /\ pc = "json"
    /\ json_file' = report
    /\ pc' = "csv"
    /\ UNCHANGED <<envVars, client_folders, client_folder, client_stats,
                   results, total_stats, walkVars, report, exception, printed,
                   csv_file, first_clients>>

SaveCsvReport ==
    /\ pc = "csv"
    /\ csv_file' = <<CsvLines(report[1])>>
    /\ pc' = "complete"
    /\ UNCHANGED <<envVars, client_folders, client_folder, client_stats,
                   results, total_stats, walkVars, report, exception, printed,
                   json_file, first_clients>>

\* the script is run again on the unchanged tree; the report files of the
\* earlier run stay on disk
Rerun ==
    /\ pc = "complete"
    /\ run < MaxRuns
    /\ run' = run + 1
    /\ pc' = "start"
    /\ client_folders' = <<>>
    /\ client_folder' = Root
    /\ client_stats' = EmptyStats
    /\ results' = <<>>
    /\ total_stats' = ZeroTotals
    /\ stack' = <<>>
    /\ cur' = NoDir
    /\ files' = <<>>
    /\ walked' = <<>>
    /\ report' = <<>>
    /\ exception' = "none"
    /\ printed' = FALSE
    /\ UNCHANGED <<root_kind, fs, PDF_SUPPORT, DOCX_SUPPORT, json_file,
                   csv_file, first_clients, idleVars>>

\* the variables of the other scripts, while this one runs
DocxIdle == total_chars = 0 /\ docx_opens = TRUE /\ estimated_pages = <<>>
NoSchema ==
    [dollar_schema |-> "", type |-> "object", description |-> <<>>,
     properties |-> <<>>]
SchemaIdle == schema = NoSchema /\ schema_in = <<>> /\ restructures = 0

Init ==
    /\ root_kind \in {"missing", "file", "dir"}
    /\ fs \in IF root_kind = "dir" THEN Trees ELSE {NoTree}
    /\ PDF_SUPPORT \in BOOLEAN
    /\ DOCX_SUPPORT \in BOOLEAN
    /\ run = 1
    /\ Fresh
    /\ json_file = <<>>
    /\ csv_file = <<>>
    /\ first_clients = <<>>
    /\ DocxIdle
    /\ SchemaIdle

Next ==
    \/ RootMissing
    \/ RootNotDirectory
    \/ ListClients
    \/ BeginClient
    \/ WalkDir
    \/ ProcessPdf
    \/ ProcessWord
    \/ SkipFile
    \/ FinishClient
    \/ ReturnReport
    \/ PrintSummary
    \/ SaveDetailedReport
    \/ SaveCsvReport
    \/ Rerun

Spec == Init /\ [][Next]_vars

-----------------------------------------------------------------------------
(* Properties of the census *)

Returned == report # <<>>
Clients == report[1].clients
Summary == report[1].summary

\* the statistics of the clients of a report, in the order of their names
StatsOf(clients) ==
    LET names == SortedNames(DOMAIN clients)
    IN [i \in 1..Len(names) |-> clients[names[i]]]

\* node n lies below directory top along real directories
RECURSIVE Below(_, _)
Below(n, top) ==
    /\ fs[n].kind # "absent"
    /\ \/ fs[n].parent = top
       \/ /\ fs[n].parent # Root
          /\ fs[fs[n].parent].kind = "dir"
          /\ Below(fs[n].parent, top)

\* the path of n relative to the directory top it lies below
RECURSIVE PathFrom(_, _)
PathFrom(top, n) ==
    IF fs[n].parent = top THEN <<fs[n].name>>
    ELSE Append(PathFrom(top, fs[n].parent), fs[n].name)

\* the node that path rel names below directory d, or Root when there is none
RECURSIVE Lookup(_, _)
Lookup(d, rel) ==
    LET hit == {n \in Entries(d) : fs[n].name = Head(rel)}
    IN IF hit = {} THEN Root
       ELSE LET n == CHOOSE m \in hit : TRUE
            IN IF Len(rel) = 1 THEN n ELSE Lookup(Resolve(n), Tail(rel))

\* the file a record of client name stands for
FileOf(name, record) ==
    LET c == CHOOSE e \in Entries(Root) : fs[e].name = name
    IN Lookup(Resolve(c), record.file)

\* the list of a client's records of one kind
RecordList(name, kind) ==
    IF kind = "pdf" THEN Clients[name].pdf_files ELSE Clients[name].docx_files

\* the records that stand for file f: <<client, list, index>>
RecordsOf(f) ==
    {t \in (DOMAIN Clients) \X {"pdf", "docx"} \X (1..Cardinality(Nodes)) :
        /\ t[3] <= Len(RecordList(t[1], t[2]))
        /\ FileOf(t[1], RecordList(t[1], t[2])[t[3]]) = f}

\* the extensions the census counts, case-insensitively
Extensions ==
    {<<".", "p", "d", "f">>, <<".", "d", "o", "c", "x">>, <<".", "d", "o", "c">>}

IsDocument(f) ==
    fs[f].kind = "file" /\ \E ext \in Extensions : EndsWith(Lower(fs[f].name), ext)

\* the immediate subdirectories of the root
TopDirs == {c \in Entries(Root) : IsDir(c)}

\* C1: in every report, each client's total_documents is pdf_count +
\* docx_count and its total_pages is pdf_pages + docx_pages, and the summary's
\* total_documents is total_pdf_files + total_docx_files and its total_pages
\* is total_pdf_pages + total_docx_pages, whichever files failed to parse.
C1_TotalsAreSumsOfParts ==
    Returned =>
        /\ \A c \in DOMAIN Clients :
              /\ Clients[c].total_documents
                   = Clients[c].pdf_count + Clients[c].docx_count
              /\ Clients[c].total_pages
                   = Clients[c].pdf_pages + Clients[c].docx_pages
        /\ Summary.total_documents
             = Summary.total_pdf_files + Summary.total_docx_files
        /\ Summary.total_pages
             = Summary.total_pdf_pages + Summary.total_docx_pages

\* a report in which Acme holds PDF and Word documents with pages of both
\* kinds, and Beta's only PDF failed to parse
C1_Witness ==
    /\ Returned
    /\ Acme \in DOMAIN Clients
    /\ Beta \in DOMAIN Clients
    /\ Clients[Acme].pdf_pages > 0
    /\ Clients[Acme].docx_pages > 0
    /\ Clients[Beta].pdf_count = 1
    /\ Clients[Beta].pdf_pages = 0
    /\ fs[9].size = -1

\* C2: in every report, summary.total_documents is the sum of
\* total_documents over the clients and summary.total_pages the sum of
\* total_pages over the clients; both are 0 when the root has no
\* subdirectories.
C2_SummaryIsSumOfClients ==
    Returned =>
        /\ Summary.total_documents
             = SumSeq([i \in 1..Len(StatsOf(Clients)) |->
                          StatsOf(Clients)[i].total_documents])
        /\ Summary.total_pages
             = SumSeq([i \in 1..Len(StatsOf(Clients)) |->
                          StatsOf(Clients)[i].total_pages])
        /\ TopDirs = {} =>
              Summary.total_documents = 0 /\ Summary.total_pages = 0

\* a report over three clients that hold documents and pages
C2_Witness ==
    /\ Returned
    /\ Cardinality(DOMAIN Clients) = 3
    /\ \A c \in DOMAIN Clients : Clients[c].total_documents > 0
    /\ Summary.total_pages > 3

\* a report over a root without subdirectories
C2_WitnessNoClients ==
    Returned /\ TopDirs = {} /\ DOMAIN Clients = {}

\* C4: a PDF that cannot be parsed, or any PDF when there is no PDF backend,
\* is recorded as one PDF document of 0 pages, and the scan goes on: every
\* client folder has its entry and every PDF below it is counted.  Acme (a
\* 3-page PDF, a .docx without characters) and Beta (an unreadable PDF) give
\* Acme 2 documents and 4 pages, Beta 1 document and 0 pages, and a summary
\* of 3 documents and 4 pages.
C4_UnreadablePdfIsZeroPages ==
    Returned =>
        /\ \A c \in TopDirs : fs[c].name \in DOMAIN Clients
        /\ \A c \in TopDirs : \A f \in Nodes :
              (Below(f, Resolve(c)) /\ fs[f].kind = "file"
                 /\ IsPdfName(fs[f].name)
                 /\ (fs[f].size < 0 \/ ~PDF_SUPPORT)) =>
                 Cardinality({i \in 1..Len(Clients[fs[c].name].pdf_files) :
                     Clients[fs[c].name].pdf_files[i]
                       = [file |-> PathFrom(Resolve(c), f), pages |-> 0]}) = 1
        /\ \A c \in TopDirs :
              Clients[fs[c].name].pdf_count
                = Cardinality({f \in Nodes :
                     Below(f, Resolve(c)) /\ fs[f].kind = "file"
                       /\ IsPdfName(fs[f].name)})
        /\ (fs = ScenarioTree /\ PDF_SUPPORT /\ DOCX_SUPPORT) =>
              /\ Clients[Acme].total_documents = 2
              /\ Clients[Acme].total_pages = 4
              /\ Clients[Beta].total_documents = 1
              /\ Clients[Beta].total_pages = 0
              /\ Summary.total_documents = 3
              /\ Summary.total_pages = 4

\* the report of the Acme and Beta scenario
C4_Witness ==
    /\ Returned
    /\ fs = ScenarioTree
    /\ PDF_SUPPORT
    /\ DOCX_SUPPORT
    /\ Clients[Beta].pdf_files = <<[file |-> <<ScanPdf>>, pages |-> 0]>>
    /\ Summary.total_documents = 3

\* C5: the run ends with FileNotFoundError both when the root does not
\* exist and when it exists and is no directory, and then no report is
\* returned and no console summary, JSON report or CSV report is emitted.
C5_RootNotFound ==
    (root_kind # "dir" /\ pc # "start") =>
        /\ exception = "FileNotFoundError"
        /\ report = <<>>
        /\ ~printed
        /\ json_file = <<>>
        /\ csv_file = <<>>

\* C6: every run on the unchanged tree returns the clients structure the
\* first run returned, the order of the records in pdf_files and docx_files
\* included.
C6_RunsAgree ==
    (Returned /\ first_clients # <<>>) => Clients = first_clients[1]

\* what C10 says of a report: every document below an immediate
\* subdirectory of the root has exactly one record, in that client's lists;
\* the counts are the lengths of the lists; no other file has a record
OneRecordPerDocument ==
    /\ \A c \in Entries(Root) : \A f \in Nodes :
          (fs[c].kind = "dir" /\ Below(f, c) /\ IsDocument(f)) =>
             /\ Cardinality(RecordsOf(f)) = 1
             /\ \A t \in RecordsOf(f) : t[1] = fs[c].name
    /\ \A name \in DOMAIN Clients :
          /\ Clients[name].pdf_count = Len(Clients[name].pdf_files)
          /\ Clients[name].docx_count = Len(Clients[name].docx_files)
    /\ \A f \in Nodes :
          (fs[f].kind = "file" /\ (~IsDocument(f) \/ fs[f].parent = Root)) =>
             RecordsOf(f) = {}

\* no immediate entry of the root is a symbolic link
NoLinkedClient == \A c \in Entries(Root) : ~IsLink(c)

\* C10 as stated: after analyze_folder completes, every .pdf, .docx or .doc
\* file in the subtree of an immediate subdirectory of the root has exactly
\* one record, in the lists of that client alone, pdf_count and docx_count
\* are the lengths of the lists, and files of another extension and files
\* directly in the root have no record.
C10_OneRecordPerDocument == Returned => OneRecordPerDocument

\* C10 as amended: the same, for a root none of whose immediate entries is
\* a symbolic link.
C10_OneRecordWithoutLinkedClient ==
    (Returned /\ NoLinkedClient) => OneRecordPerDocument

\* a report over a root without linked clients in which Acme holds a.PDF and
\* the nested sub/old.DOC beside sub/data.txt
C10_Witness ==
    /\ Returned
    /\ NoLinkedClient
    /\ fs[4].kind = "file"
    /\ fs[6].kind = "file"
    /\ fs[7].kind = "file"
    /\ fs[10].kind = "file"
    /\ Clients[Acme].docx_count = 2
    /\ RecordsOf(6) = {<<Acme, "docx", 1>>} \/ RecordsOf(6) = {<<Acme, "docx", 2>>}

\* One run of the script.  The script is sequential and nothing suspends
\* it: a step that can be taken is taken.
OneRun ==
    \/ RootMissing
    \/ RootNotDirectory
    \/ ListClients
    \/ BeginClient
    \/ WalkDir
    \/ ProcessPdf
    \/ ProcessWord
    \/ SkipFile
    \/ FinishClient
    \/ ReturnReport
    \/ PrintSummary
    \/ SaveDetailedReport
    \/ SaveCsvReport

FairSpec == Init /\ [][OneRun]_vars /\ WF_vars(OneRun)

\* no real directory is listed twice for one client
NoRepeatedWalk ==
    \A i, j \in 1..Len(walked) : i # j => walked[i] # walked[j]

\* C9: analyze_folder ends on every tree, trees whose symbolic links form
\* cycles included: no real directory is listed more than once for one
\* client, and every run that starts on a directory returns its report.
C9_WalkTerminates ==
    /\ []NoRepeatedWalk
    /\ (pc = "start" /\ root_kind = "dir") ~> Returned

\* a report returned for a tree in which Acme/sub links back to Acme and
\* the client "Smith, John" is a link to the root, whose walk listed the
\* root, Acme and Beta
C9_Witness ==
    /\ Returned
    /\ IsLink(5)
    /\ fs[5].target = 1
    /\ IsLink(11)
    /\ fs[11].target = Root
    /\ Len(walked) = 3
    /\ SmithJohn \in DOMAIN Clients

-----------------------------------------------------------------------------
(* save_csv_report on a report whose client name is any short string *)

NameChars == {"A", ",", "\""}

\* the strings over chars of length 1..n
RECURSIVE Strings(_, _)
Strings(chars, n) ==
    IF n = 0 THEN {}
    ELSE {<<c>> : c \in chars}
         \cup {Append(s, c) : s \in Strings(chars, n - 1), c \in chars}

\* a root whose one client folder is named name and holds twelve.pdf, of
\* twelve pages, or nothing
OneClientTree(name, hasPdf) ==
    [n \in Nodes |->
        CASE n = 1 -> Entry(Root, name, "dir", Root, 0)
          [] n = 2 -> IF hasPdf THEN Entry(1, ReportPdf, "file", Root, 12)
                      ELSE Absent(1, ReportPdf)
          [] OTHER -> Absent(Root, <<>>)]

\* what analyze_folder has computed for that client
OneClientStats(hasPdf) ==
    IF hasPdf
    THEN [EmptyStats EXCEPT
            !.pdf_files = <<[file |-> <<ReportPdf>>, pages |-> 12]>>,
            !.pdf_count = 1, !.pdf_pages = 12,
            !.total_documents = 1, !.total_pages = 12]
    ELSE EmptyStats

\* the script about to call save_csv_report
InitCsv ==
    /\ root_kind = "dir"
    /\ PDF_SUPPORT = TRUE
    /\ DOCX_SUPPORT = TRUE
    /\ run = 1
    /\ pc = "csv"
    /\ \E name \in Strings(NameChars, MaxNameLen), hasPdf \in BOOLEAN :
          /\ fs = OneClientTree(name, hasPdf)
          /\ client_stats = OneClientStats(hasPdf)
          /\ results = Store(<<>>, name, OneClientStats(hasPdf))
          /\ total_stats = AddToTotals(ZeroTotals, OneClientStats(hasPdf))
    /\ client_folders = <<>>
    /\ client_folder = 1
    /\ stack = <<>>
    /\ cur = [node |-> 1, rel |-> <<>>]
    /\ files = <<>>
    /\ walked = <<1>>
    /\ report = <<[clients |-> results, summary |-> total_stats,
                   analyzed_path |-> "root", analyzed_at |-> run]>>
    /\ exception = "none"
    /\ printed = TRUE
    /\ json_file = report
    /\ csv_file = <<>>
    /\ first_clients = <<results>>
    /\ DocxIdle
    /\ SchemaIdle

CsvSpec == InitCsv /\ [][SaveCsvReport]_vars

\* A line read under the CSV quoting rules: a field that starts with a
\* quote runs to its closing quote, a doubled quote inside it standing for
\* one quote; any other field runs to the next comma.
RECURSIVE ParseCsv(_, _, _, _)
ParseCsv(line, state, field, fields) ==
    IF line = <<>> THEN Append(fields, field)
    ELSE LET c == Head(line)
             rest == Tail(line)
         IN CASE state = "start" /\ c = "\"" ->
                    ParseCsv(rest, "quoted", <<>>, fields)
              [] state = "quoted" /\ c = "\"" ->
                    ParseCsv(rest, "closed", field, fields)
              [] state = "quoted" /\ c # "\"" ->
                    ParseCsv(rest, "quoted", Append(field, c), fields)
              [] state = "closed" /\ c = "\"" ->
                    ParseCsv(rest, "quoted", Append(field, c), fields)
              [] state # "quoted" /\ c = "," ->
                    ParseCsv(rest, "start", <<>>, Append(fields, field))
              [] OTHER ->
                    ParseCsv(rest, "plain", Append(field, c), fields)

HasComma(name) == \E i \in 1..Len(name) : name[i] = ","

\* C7: the row of every client whose name contains a comma reads back as
\* the 7 columns of the header: the client name, then pdf_count,
\* docx_count, total_documents, pdf_pages, docx_pages and total_pages.
C7_CommaNameRowParses ==
    csv_file # <<>> =>
        LET names == SortedNames(DOMAIN Clients)
        IN \A i \in 1..Len(names) :
              HasComma(names[i]) =>
                 LET fields == ParseCsv(csv_file[1][i + 1], "start", <<>>, <<>>)
                     stats == Clients[names[i]]
                 IN fields = <<names[i], IntToStr(stats.pdf_count),
                               IntToStr(stats.docx_count),
                               IntToStr(stats.total_documents),
                               IntToStr(stats.pdf_pages),
                               IntToStr(stats.docx_pages),
                               IntToStr(stats.total_pages)>>

-----------------------------------------------------------------------------
(* count_docx_pages on a document of any number of characters *)

InitDocx ==
    /\ total_chars \in 0..MaxChars
    /\ docx_opens \in BOOLEAN
    /\ DOCX_SUPPORT \in BOOLEAN
    /\ estimated_pages = <<>>
    /\ root_kind = "dir"
    /\ fs = NoTree
    /\ PDF_SUPPORT = TRUE
    /\ run = 1
    /\ Fresh
    /\ json_file = <<>>
    /\ csv_file = <<>>
    /\ first_clients = <<>>
    /\ SchemaIdle

CountDocxPages ==
    /\ estimated_pages = <<>>
    /\ estimated_pages' = <<DocxPages(DOCX_SUPPORT, docx_opens, total_chars)>>
    /\ UNCHANGED <<censusVars, total_chars, docx_opens, schemaVars>>

DocxSpec == InitDocx /\ [][CountDocxPages]_vars

\* C3: for a .docx the backend opens, with n characters in its paragraphs,
\* count_docx_pages returns max(1, n // 3000): 1 for 0 characters, 1 for
\* 3000, 1 for every n in 3001..5999, 2 for 6000, and never 0.
C3_DocxEstimate ==
    (estimated_pages # <<>> /\ DOCX_SUPPORT /\ docx_opens) =>
        LET n == total_chars
            pages == estimated_pages[1]
        IN /\ pages = Max(1, n \div 3000)
           /\ pages # 0
           /\ n = 0 => pages = 1
           /\ n = 3000 => pages = 1
           /\ n \in 3001..5999 => pages = 1
           /\ n = 6000 => pages = 2

\* the estimate made for a document of 6000 characters
C3_Witness ==
    /\ DOCX_SUPPORT
    /\ docx_opens
    /\ total_chars = 6000
    /\ estimated_pages = <<2>>

-----------------------------------------------------------------------------
(* restructure_cfr.py *)

\* the sections that are duplicated under client_1 and client_2
client_specific_sections ==
    <<"personal_information", "dependants", "address_details",
      "health_and_occupation", "totalMonthlyNetIncome", "income",
      "expenditure", "disposable_income", "future_circumstances",
      "tax_and_residence", "liabilities", "protection_policies", "pensions",
      "assets", "holdings", "vulnerability_assessment">>

IsClientSpecific(section) ==
    \E i \in 1..Len(client_specific_sections) :
        client_specific_sections[i] = section

\* a schema fragment: its type, its description and its properties
Fragment(type, description, properties) ==
    [type |-> type, description |-> description, properties |-> properties]

\* the first loop: the listed sections the schema holds, in the order of
\* the list, put into the properties of a client
RECURSIVE MoveSections(_, _, _)
MoveSections(sections, properties, moved) ==
    IF sections = <<>> THEN moved
    ELSE IF Head(sections) \in DOMAIN properties
    THEN MoveSections(Tail(sections), properties,
                      Store(moved, Head(sections), properties[Head(sections)]))
    ELSE MoveSections(Tail(sections), properties, moved)

\* a first loop that moves every section of the schema
ClientPropertiesOfAll(properties) == properties

ClientProperties(properties) ==
    MoveSections(client_specific_sections, properties, <<>>)

\* new_schema before the second loop
NewRoot(properties) ==
    [s \in {"has_client_2", "client_1", "client_2"} |->
        CASE s = "has_client_2" ->
                Fragment("boolean",
                         "Indicates whether second client data is present",
                         <<>>)
          [] s = "client_1" ->
                Fragment("object", "Primary client information",
                         ClientProperties(properties))
          [] s = "client_2" ->
                Fragment("object",
                         "Secondary client information (if has_client_2 is true). Structure mirrors client_1 exactly",
                         ClientProperties(properties))]

\* the second loop: every section that is not listed is set at the root
AddShared(root, properties) ==
    [s \in DOMAIN root \cup {t \in DOMAIN properties : ~IsClientSpecific(t)} |->
        IF s \in DOMAIN properties /\ ~IsClientSpecific(s)
        THEN properties[s]
        ELSE root[s]]

\* the schema the script writes for the schema it read
new_schema(sch) ==
    [dollar_schema |-> sch.dollar_schema,
     type |-> "object",
     description |-> Append(sch.description, " - Supports two clients"),
     properties |-> AddShared(NewRoot(sch.properties), sch.properties)]

\* the section names and fragments of the schemas the model restructures
InputSections ==
    {"income", "pensions", "meeting_notes", "has_client_2", "client_1",
     "client_2"}
InputFragments ==
    {Fragment("string", "", <<>>), Fragment("object", "", <<>>)}

\* the flat properties maps over those sections
FlatProperties ==
    UNION {[present -> InputFragments] : present \in SUBSET InputSections}

InitSchema ==
    /\ \E properties \in FlatProperties :
          schema = [dollar_schema |-> "http://json-schema.org/draft-07/schema#",
                    type |-> "object",
                    description |-> <<"CFR">>,
                    properties |-> properties]
    /\ schema_in = <<>>
    /\ restructures = 0
    /\ root_kind = "dir"
    /\ fs = NoTree
    /\ PDF_SUPPORT = TRUE
    /\ DOCX_SUPPORT = TRUE
    /\ run = 1
    /\ Fresh
    /\ json_file = <<>>
    /\ csv_file = <<>>
    /\ first_clients = <<>>
    /\ DocxIdle

\* one run of the script: cfr.json is read, restructured and written back
Restructure ==
    /\ restructures < MaxRestructures
    /\ schema_in' = <<schema>>
    /\ schema' = new_schema(schema)
    /\ restructures' = restructures + 1
    /\ UNCHANGED <<censusVars, docxVars>>

SchemaSpec == InitSchema /\ [][Restructure]_vars

Reserved == {"has_client_2", "client_1", "client_2"}
Allowed == {s \in DOMAIN schema_in[1].properties : IsClientSpecific(s)}

\* the output root holds has_client_2 of type boolean
HasClient2IsBoolean ==
    /\ "has_client_2" \in DOMAIN schema.properties
    /\ schema.properties["has_client_2"].type = "boolean"

\* client_1 and client_2 hold exactly the allow-listed sections of the
\* input, with the input's fragments
ClientsHoldAllowed ==
    \A c \in {"client_1", "client_2"} :
        /\ c \in DOMAIN schema.properties
        /\ DOMAIN schema.properties[c].properties = Allowed
        /\ \A s \in Allowed :
              schema.properties[c].properties[s] = schema_in[1].properties[s]

\* every input section not on the allow-list is unchanged at the root
SharedUnchanged ==
    \A s \in DOMAIN schema_in[1].properties :
        ~IsClientSpecific(s) =>
            /\ s \in DOMAIN schema.properties
            /\ schema.properties[s] = schema_in[1].properties[s]

\* C8 as stated: for any set of input section names, the output of an
\* earlier run included, the output root holds has_client_2 of type boolean,
\* client_1 and client_2 hold exactly the allow-listed sections of the
\* input, and every other input section is unchanged at the root.
C8_Restructured ==
    restructures > 0 =>
        HasClient2IsBoolean /\ ClientsHoldAllowed /\ SharedUnchanged

\* C8 as amended: every input section not on the allow-list is unchanged at
\* the root; and when the input has no section named has_client_2, client_1
\* or client_2, the root holds has_client_2 of type boolean and client_1 and
\* client_2 hold exactly the allow-listed sections of the input.
C8_RestructuredWithoutReservedNames ==
    restructures > 0 =>
        /\ SharedUnchanged
        /\ DOMAIN schema_in[1].properties \cap Reserved = {} =>
              HasClient2IsBoolean /\ ClientsHoldAllowed

\* a schema with income and meeting_notes and without pensions,
\* restructured once
C8_Witness ==
    /\ restructures = 1
    /\ DOMAIN schema_in[1].properties = {"income", "meeting_notes"}
    /\ DOMAIN schema.properties["client_2"].properties = {"income"}
    /\ DOMAIN schema.properties
         = {"has_client_2", "client_1", "client_2", "meeting_notes"}

====
